---- MODULE Spec2Model ----
(***************************************************************************)
(* UploadsService (tm_backend/src/uploads/uploads.service.ts): a storage   *)
(* service that keeps avatars and attachments either in an S3 bucket or in *)
(* a local directory tree, chosen once by the constructor.                 *)
(*                                                                         *)
(* Strings are sequences of tokens.  A token is one character ("/", ".",   *)
(* " ", "A", ...) or an atomic lower-case word that the code only ever     *)
(* copies or compares as a whole ("uploads", "attachments", a uuid "u1").  *)
(* Filesystem paths are sequences of components, each component a string.  *)
(***************************************************************************)
EXTENDS Integers, Sequences, FiniteSets, TLC

VARIABLES cfg,        \* the configuration the constructor read
          s3Client,   \* this.s3Client: TRUE when an S3Client was created, FALSE when null
          bucketName, \* this.bucketName: a string, "" when null
          s3,         \* the bucket: key -> [body, contentType]
          dirs,       \* the filesystem: the set of directories
          files,      \* the filesystem: path -> bytes of each regular file
          nextId,     \* number of uuids that went into a stored name
          issued,     \* what the successful stores returned, in order
          last,       \* the last call and how it ended
          pending,    \* calls suspended at an await, streams returned and not yet opened
          serial,     \* the stores the completed calls give when run one after the
                      \* other, in the order they completed
          forms       \* the web client: the mounted page, its component state, the
                      \* auth store, the requests in flight and what ran so far

vars == <<cfg, s3Client, bucketName, s3, dirs, files, nextId, issued, last, pending, serial,
          forms>>

(***************************************************************************)
(* Bounds                                                                  *)
(***************************************************************************)
\* number of store calls (uuids drawn) in one behaviour
MaxStores == 2
\* keys one ListObjectsV2 response holds (1000 on S3), scaled to the model
MaxKeys == 1
\* form submissions in one behaviour
MaxSubmits == 2
\* pages the user opens by a link in one behaviour
MaxVisits == 2

(***************************************************************************)
(* Strings                                                                 *)
(***************************************************************************)
StartsWith(s, p) == Len(s) >= Len(p) /\ SubSeq(s, 1, Len(p)) = p

Drop(s, n) == SubSeq(s, n + 1, Len(s))

\* index of the first occurrence of p in s, 0 when there is none
IndexOf(s, p) ==
    LET hits == {i \in 1..(Len(s) - Len(p) + 1) : SubSeq(s, i, i + Len(p) - 1) = p}
    IN  IF hits = {} THEN 0 ELSE CHOOSE i \in hits : \A j \in hits : i <= j

\* String.prototype.replace(p, ''): the first occurrence of p is removed
ReplaceFirst(s, p) ==
    LET i == IndexOf(s, p)
    IN  IF i = 0 THEN s ELSE SubSeq(s, 1, i - 1) \o Drop(s, i + Len(p) - 1)

\* String.prototype.replace(/^p/, ''): p is removed when s starts with it
StripPrefix(s, p) == IF StartsWith(s, p) THEN Drop(s, Len(p)) ELSE s

\* Array.prototype.join(sep)
RECURSIVE Join(_, _)
Join(parts, sep) ==
    IF parts = <<>> THEN <<>>
    ELSE IF Len(parts) = 1 THEN parts[1]
    ELSE parts[1] \o sep \o Join(Tail(parts), sep)

\* the components of s between the "/" tokens (empty components included)
RECURSIVE Split(_)
Split(s) ==
    LET i == IndexOf(s, <<"/">>)
    IN  IF i = 0 THEN <<s>> ELSE <<SubSeq(s, 1, i - 1)>> \o Split(Drop(s, i))

UpperToLower == [c \in {"A", "P", "T"} |-> CASE c = "A" -> "a" [] c = "P" -> "p" [] c = "T" -> "t"]

\* tokens the class [a-z0-9\-_] matches: they are kept as they are
KeptTokens == {"a", "p", "t", "f", "1", "-", "_", "txt", "png", "webp", "avatar",
               "uploads", "file", "attachments", "avatars", "host",
               "u1", "u2", "u3", "u4"}

SanitizeToken(c) ==
    IF c \in KeptTokens THEN c
    ELSE IF c \in DOMAIN UpperToLower THEN UpperToLower[c]
    ELSE "_"

\* the mutant keeps "." (a character class that lets dots through)
sanitizeNameKeepsDots(name) ==
    [i \in 1..Len(name) |-> IF name[i] = "." THEN "." ELSE SanitizeToken(name[i])]

\* name.replace(/[^a-z0-9\-_]/gi, '_').toLowerCase()
sanitizeName(name) == [i \in 1..Len(name) |-> SanitizeToken(name[i])]

(***************************************************************************)
(* Paths (node's path.join on POSIX)                                       *)
(***************************************************************************)
\* path.join normalises: "" and "." components vanish, ".." removes the
\* component before it (at the root it vanishes)
RECURSIVE Resolve(_, _)
Resolve(stack, comps) ==
    IF comps = <<>> THEN stack
    ELSE LET c == Head(comps)
         IN  IF c = <<>> \/ c = <<".">> THEN Resolve(stack, Tail(comps))
             ELSE IF c = <<".", ".">>
                  THEN Resolve(IF stack = <<>> THEN <<>> ELSE SubSeq(stack, 1, Len(stack) - 1),
                               Tail(comps))
             ELSE Resolve(Append(stack, c), Tail(comps))

\* path.join(base, ...parts) for an absolute base
PathJoin(base, parts) == Resolve(base, Split(Join(parts, <<"/">>)))

\* path.join(__dirname, '..', '..', '..', 'uploads')
uploadsDir == << <<"srv">>, <<"uploads">> >>

Parent(p) == SubSeq(p, 1, Len(p) - 1)

IsPrefixPath(d, p) == Len(p) >= Len(d) /\ SubSeq(p, 1, Len(d)) = d

Ancestors(p) == {SubSeq(p, 1, n) : n \in 1..Len(p)}

\* fs.existsSync
existsSync(p, ds, fs) == p = <<>> \/ p \in ds \/ p \in DOMAIN fs

\* fs.mkdirSync(p, {recursive: true}): fails when a component is a regular file
MkdirOk(p, fs) == \A a \in Ancestors(p) : a \notin DOMAIN fs

\* the mutant makes the one directory only, as mkdirSync does without
\* {recursive: true}
ensureDirectoryExistsNotRecursive(p, ds, fs) ==
    IF existsSync(p, ds, fs) THEN [ok |-> TRUE, dirs |-> ds]
    ELSE IF MkdirOk(p, fs) /\ Parent(p) \in ds THEN [ok |-> TRUE, dirs |-> ds \cup {p}]
    ELSE [ok |-> FALSE, dirs |-> ds]

\* ensureDirectoryExists(dirPath): [ok, dirs]
ensureDirectoryExists(p, ds, fs) ==
    IF existsSync(p, ds, fs) THEN [ok |-> TRUE, dirs |-> ds]
    ELSE IF MkdirOk(p, fs) THEN [ok |-> TRUE, dirs |-> ds \cup Ancestors(p)]
    ELSE [ok |-> FALSE, dirs |-> ds]

FnPut(f, k, v) == [x \in DOMAIN f \cup {k} |-> IF x = k THEN v ELSE f[x]]

FnDel(f, ks) == [x \in DOMAIN f \ ks |-> f[x]]

(***************************************************************************)
(* Inputs                                                                  *)
(***************************************************************************)
Uuids == <<"u1", "u2", "u3", "u4">>

NoBytes == <<"none", "">>

\* what a write that failed after the file was opened leaves behind
Truncated == <<"raw", "">>

\* the mutant re-encodes and leaves the size as it is
SharpNoResize(buffer) == <<"webp", buffer[2]>>

\* sharp(buffer).resize(256, 256, {fit: 'cover'}).toFormat('webp').toBuffer()
Sharp(buffer) == <<"webp256", buffer[2]>>

Notes == [buffer |-> <<"raw", "hello">>, mimetype |-> <<"text", "/", "plain">>,
          originalname |-> <<"n", ".", "txt">>, image |-> FALSE]

Pic == [buffer |-> <<"raw", "pixels">>, mimetype |-> <<"image", "/", "png">>,
        originalname |-> <<"P", " ", "A", ".", "png">>, image |-> TRUE]

\* a blob whose original filename points at a file stored before: "/../<name>"
Crafted(name) == [buffer |-> <<"raw", "other">>, mimetype |-> <<"text", "/", "plain">>,
                  originalname |-> <<"/", ".", ".", "/">> \o name, image |-> FALSE]

SegPA == <<"P", " ", "A">>

SegDots == <<".", ".", "/">>

SegmentLists == {<<>>, <<SegPA>>, <<SegPA, SegDots>>}

\* the attachments callers store: a blob and its path segments
AttachmentRequests ==
    {<<Notes, <<>>>>, <<Pic, <<SegPA, SegDots>>>>}
    \cup {<<Crafted(issued[i].filename), issued[i].segs>> :
              i \in {j \in 1..Len(issued) : issued[j].op = "saveAttachment"}}

SetOrNot == {"", "x"}

AllConfigs == [region : SetOrNot, accessKeyId : SetOrNot, secretAccessKey : SetOrNot,
               sessionToken : SetOrNot, bucketName : SetOrNot]

Missing(c) == Cardinality({f \in DOMAIN c : c[f] = ""})

\* complete, or complete but for the session token
Configs == {c \in AllConfigs :
               \/ Missing(c) = 0
               \/ Missing(c) = 1 /\ c.sessionToken = ""}

AvatarsDir == PathJoin(uploadsDir, << <<"avatars">> >>)

AttachmentsDir == PathJoin(uploadsDir, << <<"attachments">> >>)

\* a file an earlier deployment in local mode left: <base>/avatars/old.webp
LeftoverFile == AvatarsDir \o << <<"old", ".", "webp">> >>

NoFiles == [p \in {} |-> NoBytes]

EmptyDisk == [dirs |-> {}, files |-> NoFiles]

\* a file of the application next to the uploads directory
PackageJson == Parent(uploadsDir) \o << <<"package", ".", "json">> >>

\* the disk of a fresh deployment: the application's directory, no uploads
FreshDisk == [dirs |-> Ancestors(Parent(uploadsDir)),
              files |-> [p \in {PackageJson} |-> <<"raw", "manifest">>]]

\* the tree of an earlier deployment that ran in local mode
LeftoverDisk == [dirs |-> Ancestors(AvatarsDir) \cup Ancestors(AttachmentsDir),
                 files |-> [p \in {LeftoverFile} |-> <<"webp256", "old">>]]

\* the disk before the service starts: a fresh one where it starts without
\* the session token; where all credentials are configured, the disk of a
\* deployment that ran without them before
Disks(c) == IF c.sessionToken # "" THEN {LeftoverDisk} ELSE {FreshDisk}

(***************************************************************************)
(* Constructor                                                             *)
(***************************************************************************)
\* if (region && accessKeyId && secretAccessKey && sessionToken && this.bucketName)
HasClient(c) ==
    c.region # "" /\ c.accessKeyId # "" /\ c.secretAccessKey # ""
    /\ c.sessionToken # "" /\ c.bucketName # ""

\* the constructor: [s3Client, bucketName, dirs]
Constructor(c, disk) ==
    LET client == HasClient(c)
        d1 == ensureDirectoryExists(AvatarsDir, disk.dirs, disk.files).dirs
        d2 == ensureDirectoryExists(AttachmentsDir, d1, disk.files).dirs
    IN  [s3Client |-> client,
         bucketName |-> c.bucketName,
         dirs |-> IF ~client THEN d2 ELSE disk.dirs]

\* if (this.s3Client && this.bucketName)
Remote == s3Client /\ bucketName # ""

NoObjects == [k \in {} |-> [body |-> NoBytes, contentType |-> <<>>]]

\* the key of an object that another tool put into the bucket
UntypedKey == <<"exports", "/", "report">>

\* the bucket the service finds: it holds an object for which GetObject
\* answers without a ContentType
Bucket(c) ==
    IF HasClient(c)
    THEN [k \in {UntypedKey} |-> [body |-> <<"raw", "report">>, contentType |-> <<>>]]
    ELSE NoObjects

\* no blob: the calls that are given none
NoBlob == [buffer |-> NoBytes, mimetype |-> <<>>, originalname |-> <<>>, image |-> FALSE]

\* no HTTP response: the calls that are not made for a request
NoResponse == [code |-> 0, sent |-> <<>>]

\* useState<string | null>(null)
NoError == "null"

\* the auth store before any login
NoToken == <<>>

\* a page component when it mounts: useState(null), useState(false), no
\* field error shown
Mounted(page, mount) ==
    [route |-> page, mount |-> mount, isLoading |-> FALSE, error |-> NoError,
     fieldErrors |-> FALSE]

\* the web client when the login page is opened first
FreshClient ==
    [page |-> Mounted("/login", 1), auth |-> NoToken, flying |-> {}, sent |-> 0,
     visits |-> 0, log |-> <<>>]

NoCall == [op |-> "none", arg |-> <<>>, segs |-> <<>>, blob |-> NoBlob, status |-> "ok",
           url |-> <<>>, type |-> "", name |-> <<>>, body |-> NoBytes, ctype |-> <<>>,
           path |-> <<>>, failed |-> FALSE, res |-> NoResponse]

Init ==
    \E c \in Configs :
      \E disk \in Disks(c) :
        LET k == Constructor(c, disk)
        IN  /\ cfg = c
            /\ s3Client = k.s3Client
            /\ bucketName = k.bucketName
            /\ dirs = k.dirs
            /\ files = disk.files
            /\ s3 = Bucket(c)
            /\ nextId = 0
            /\ issued = <<>>
            /\ last = NoCall
            /\ pending = {}
            /\ serial = {[s3 |-> Bucket(c), dirs |-> k.dirs, files |-> disk.files]}
            /\ forms = FreshClient

(***************************************************************************)
(* Backend calls                                                           *)
(***************************************************************************)
\* fs.writeFileSync(p, bytes): open(p, 'w'), write, close.  It fails with
\* nothing changed when p is a directory, when its parent is no directory
\* or when the open is refused (io = "fail"); a failure of the write after
\* the open (io = "partial": disk full, I/O error) leaves the file created
\* or truncated.
writeFileSync(p, bytes, ds, fs, io) ==
    IF p = <<>> \/ p \in ds \/ (Parent(p) # <<>> /\ Parent(p) \notin ds)
    THEN [ok |-> FALSE, files |-> fs]
    ELSE IF io = "fail" THEN [ok |-> FALSE, files |-> fs]
    ELSE IF io = "partial" THEN [ok |-> FALSE, files |-> FnPut(fs, p, Truncated)]
    ELSE [ok |-> TRUE, files |-> FnPut(fs, p, bytes)]

\* fs.unlinkSync(p): removes a regular file, fails on a directory
unlinkSync(p, ds, fs, io) ==
    IF p \notin DOMAIN fs \/ io # "ok" THEN [ok |-> FALSE, files |-> fs]
    ELSE [ok |-> TRUE, files |-> FnDel(fs, {p})]

\* fs.rmSync(p, {recursive: true, force: true}): p and all below it
rmSync(p, ds, fs, io) ==
    IF io # "ok" THEN [ok |-> FALSE, dirs |-> ds, files |-> fs]
    ELSE [ok |-> TRUE,
          dirs |-> {d \in ds : ~IsPrefixPath(p, d)},
          files |-> FnDel(fs, {f \in DOMAIN fs : IsPrefixPath(p, f)})]

\* PutObjectCommand
PutObject(bucket, key, body, contentType, io) ==
    IF io # "ok" THEN [ok |-> FALSE, s3 |-> bucket]
    ELSE [ok |-> TRUE, s3 |-> FnPut(bucket, key, [body |-> body, contentType |-> contentType])]

\* DeleteObjectCommand: deleting a key that is not there succeeds
DeleteObject(bucket, key, io) ==
    IF io # "ok" THEN [ok |-> FALSE, s3 |-> bucket]
    ELSE [ok |-> TRUE, s3 |-> FnDel(bucket, {key})]

\* DeleteObjectsCommand
DeleteObjects(bucket, keys, io) ==
    IF io # "ok" THEN [ok |-> FALSE, s3 |-> bucket]
    ELSE [ok |-> TRUE, s3 |-> FnDel(bucket, keys)]

Min(a, b) == IF a < b THEN a ELSE b

\* ListObjectsV2Command with a Prefix and no ContinuationToken: the
\* Contents a single response can hold, at most MaxKeys of the matching keys
ListObjectsV2(bucket, prefix) ==
    LET matching == {k \in DOMAIN bucket : StartsWith(k, prefix)}
    IN  {page \in SUBSET matching : Cardinality(page) = Min(MaxKeys, Cardinality(matching))}

(***************************************************************************)
(* The service's methods, as functions of the state they read: each gives  *)
(* how the call ends (status "ok" or "throw"), what it returns and the     *)
(* stores it leaves.  io is the fate of the backend call it makes.  The    *)
(* ...In form takes the mode of the service, its bucket b and its disk     *)
(* (ds, fs); the short form is the call on this service.                   *)
(***************************************************************************)
UploadsPrefix == <<"/", "uploads", "/">>

ProxyPrefix == <<"/", "uploads", "/", "file", "/">>

OctetStream == <<"application", "/", "octet-stream">>

WebpType == <<"image", "/", "webp">>

Outcome(status, failed, url, body, ctype, key, path, b, ds, fs) ==
    [status |-> status, failed |-> failed, url |-> url, type |-> "", name |-> <<>>,
     body |-> body, ctype |-> ctype, key |-> key, path |-> path,
     s3 |-> b, dirs |-> ds, files |-> fs]

\* return { url, type, filename }
Returned(o, type, filename) == [o EXCEPT !.type = type, !.name = filename]

Thrown(failed, b, ds, fs) ==
    Outcome("throw", failed, <<>>, NoBytes, <<>>, <<>>, <<>>, b, ds, fs)

\* `${uuidv4()}-${file.originalname}`
AttachmentFilename(uuid, originalname) == <<uuid, "-">> \o originalname

\* `avatar-${uuidv4()}.webp`
AvatarFilename(uuid) == <<"avatar", "-", uuid, ".", "webp">>

\* `attachments/${sanitizedSegments.join('/')}/${filename}`
AttachmentKey(sanitizedSegments, filename) ==
    <<"attachments", "/">> \o Join(sanitizedSegments, <<"/">>) \o <<"/">> \o filename

\* '/' + ['uploads', 'attachments', ...sanitizedSegments, filename].join('/')
LocalAttachmentUrl(sanitizedSegments, filename) ==
    <<"/">> \o Join(<< <<"uploads">>, <<"attachments">> >> \o sanitizedSegments \o <<filename>>,
                    <<"/">>)

sanitizeSegments(pathSegments) ==
    [i \in 1..Len(pathSegments) |-> sanitizeName(pathSegments[i])]

saveAvatarIn(remote, b, ds, fs, file, uuid, io) ==
    LET filename == AvatarFilename(uuid)
        buffer == Sharp(file.buffer)
        key == <<"avatars", "/">> \o filename
        filepath == PathJoin(uploadsDir, << <<"avatars">>, filename >>)
    IN  IF ~file.image THEN Thrown(FALSE, b, ds, fs)
        ELSE IF remote
        THEN LET put == PutObject(b, key, buffer, WebpType, io)
             IN  IF ~put.ok THEN Thrown(TRUE, b, ds, fs)
                 ELSE Outcome("ok", FALSE, ProxyPrefix \o key, buffer, WebpType,
                              key, <<>>, put.s3, ds, fs)
        ELSE LET w == writeFileSync(filepath, buffer, ds, fs, io)
             IN  IF ~w.ok THEN Thrown(TRUE, b, ds, w.files)
                 ELSE Outcome("ok", FALSE, <<"/", "uploads", "/", "avatars", "/">> \o filename,
                              buffer, <<>>, <<>>, filepath, b, ds, w.files)

saveAvatar(file, uuid, io) == saveAvatarIn(Remote, s3, dirs, files, file, uuid, io)

\* the mutant takes one image type for all of them
AttachmentTypeJpegOnly(file) ==
    IF file.mimetype = <<"image", "/", "jpeg">> THEN "IMAGE" ELSE "FILE"

\* file.mimetype.startsWith('image/') ? 'IMAGE' : 'FILE'
AttachmentType(file) == IF StartsWith(file.mimetype, <<"image", "/">>) THEN "IMAGE" ELSE "FILE"

saveAttachmentIn(remote, b, ds, fs, file, pathSegments, uuid, io) ==
    LET filename == AttachmentFilename(uuid, file.originalname)
        sanitizedSegments == sanitizeSegments(pathSegments)
        key == AttachmentKey(sanitizedSegments, filename)
        absoluteDir == PathJoin(uploadsDir, << <<"attachments">> >> \o sanitizedSegments)
        made == ensureDirectoryExists(absoluteDir, ds, fs)
        filepath == PathJoin(absoluteDir, <<filename>>)
    IN  IF remote
        THEN LET put == PutObject(b, key, file.buffer, file.mimetype, io)
             IN  IF ~put.ok THEN Thrown(TRUE, b, ds, fs)
                 ELSE Returned(Outcome("ok", FALSE, ProxyPrefix \o key, file.buffer,
                                       file.mimetype, key, <<>>, put.s3, ds, fs),
                               AttachmentType(file), file.originalname)
        ELSE IF ~made.ok THEN Thrown(TRUE, b, ds, fs)
        ELSE LET w == writeFileSync(filepath, file.buffer, made.dirs, fs, io)
             IN  IF ~w.ok THEN Thrown(TRUE, b, made.dirs, w.files)
                 ELSE Returned(Outcome("ok", FALSE,
                                       LocalAttachmentUrl(sanitizedSegments, filename),
                                       file.buffer, <<>>, <<>>, filepath, b, made.dirs, w.files),
                               AttachmentType(file), file.originalname)

saveAttachment(file, pathSegments, uuid, io) == saveAttachmentIn(Remote, s3, dirs, files, file, pathSegments, uuid, io)

\* the mutant lets the error of a delete out of the method
Rethrow(ok) == IF ok THEN "ok" ELSE "throw"

\* try { ... } catch (error) { console.error(...) }: the delete paths end
\* normally whether or not the call inside failed
LogAndSwallow(ok) == "ok"

LegacyPrefix == <<"http", ":", "/", "/", "host">>

\* new URL(fileUrl) accepts the string
UrlParses(fileUrl) == StartsWith(fileUrl, LegacyPrefix)

\* the URL parser on the segments of a path: "." is dropped, ".." drops the
\* segment before it, and either one at the end leaves an empty segment
RECURSIVE UrlSegments(_, _)
UrlSegments(stack, comps) ==
    IF comps = <<>> THEN stack
    ELSE LET c == Head(comps)
             popped == IF stack = <<>> THEN <<>> ELSE SubSeq(stack, 1, Len(stack) - 1)
             atEnd == Len(comps) = 1
         IN  IF c = <<".", ".">>
             THEN UrlSegments(IF atEnd THEN Append(popped, <<>>) ELSE popped, Tail(comps))
             ELSE IF c = <<".">>
             THEN UrlSegments(IF atEnd THEN Append(stack, <<>>) ELSE stack, Tail(comps))
             ELSE UrlSegments(Append(stack, c), Tail(comps))

\* new URL(fileUrl).pathname: what follows the host ("/" when nothing does),
\* with its dot segments removed and its spaces percent-encoded
UrlPathname(fileUrl) ==
    LET rest == Drop(fileUrl, Len(LegacyPrefix))
        path == <<"/">> \o Join(UrlSegments(<<>>, Split(Drop(rest, 1))), <<"/">>)
    IN  IF rest = <<>> THEN <<"/">>
        ELSE [i \in 1..Len(path) |-> IF path[i] = " " THEN "%20" ELSE path[i]]

\* the mutant keeps the leading slash of the path
LegacyKeyWithSlash(fileUrl) == UrlPathname(fileUrl)

\* url.pathname.substring(1)
LegacyKey(fileUrl) == Drop(UrlPathname(fileUrl), 1)

\* the mutant strips '/uploads/' where the code strips '/uploads/file/'
ProxyKeyShortPrefix(fileUrl) == ReplaceFirst(fileUrl, UploadsPrefix)

\* fileUrl.replace('/uploads/file/', '')
ProxyKey(fileUrl) == ReplaceFirst(fileUrl, ProxyPrefix)

deleteFileIn(remote, b, ds, fs, fileUrl, io) ==
    IF remote /\ StartsWith(fileUrl, ProxyPrefix)
    THEN LET key == ProxyKey(fileUrl)
             del == DeleteObject(b, key, io)
         IN  Outcome(LogAndSwallow(del.ok), ~del.ok, <<>>, NoBytes, <<>>, key, <<>>,
                     del.s3, ds, fs)
    ELSE IF remote /\ StartsWith(fileUrl, <<"http">>)
    THEN IF ~UrlParses(fileUrl)
         THEN Outcome(LogAndSwallow(FALSE), TRUE, <<>>, NoBytes, <<>>, <<>>, <<>>, b, ds, fs)
         ELSE LET key == LegacyKey(fileUrl)
                  del == DeleteObject(b, key, io)
              IN  Outcome(LogAndSwallow(del.ok), ~del.ok, <<>>, NoBytes, <<>>, key, <<>>,
                          del.s3, ds, fs)
    ELSE LET relativePath == StripPrefix(fileUrl, UploadsPrefix)
             fullPath == PathJoin(uploadsDir, <<relativePath>>)
         IN  IF ~existsSync(fullPath, ds, fs)
             THEN Outcome("ok", FALSE, <<>>, NoBytes, <<>>, <<>>, fullPath, b, ds, fs)
             ELSE LET rm == unlinkSync(fullPath, ds, fs, io)
                  IN  Outcome(LogAndSwallow(rm.ok), ~rm.ok, <<>>, NoBytes, <<>>, <<>>, fullPath,
                              b, ds, rm.files)

deleteFile(fileUrl, io) == deleteFileIn(Remote, s3, dirs, files, fileUrl, io)

\* page: the Contents of the list response (one of ListObjectsV2's)
deleteFolderIn(remote, b, ds, fs, pathSegments, io, page) ==
    LET sanitizedSegments == sanitizeSegments(pathSegments)
        fullPath == PathJoin(uploadsDir, << <<"attachments">> >> \o sanitizedSegments)
    IN  IF remote
        THEN IF io # "ok"
             THEN Outcome(LogAndSwallow(FALSE), TRUE, <<>>, NoBytes, <<>>, <<>>, <<>>, b, ds, fs)
             ELSE IF page = {}
             THEN Outcome("ok", FALSE, <<>>, NoBytes, <<>>, <<>>, <<>>, b, ds, fs)
             ELSE LET del == DeleteObjects(b, page, io)
                  IN  Outcome(LogAndSwallow(del.ok), ~del.ok, <<>>, NoBytes, <<>>, <<>>, <<>>,
                              del.s3, ds, fs)
        ELSE IF ~existsSync(fullPath, ds, fs)
             THEN Outcome("ok", FALSE, <<>>, NoBytes, <<>>, <<>>, fullPath, b, ds, fs)
             ELSE LET rm == rmSync(fullPath, ds, fs, io)
                  IN  Outcome(LogAndSwallow(rm.ok), ~rm.ok, <<>>, NoBytes, <<>>, <<>>, fullPath,
                              b, rm.dirs, rm.files)

deleteFolder(pathSegments, io, page) == deleteFolderIn(Remote, s3, dirs, files, pathSegments, io, page)

\* `attachments/${sanitizedSegments.join('/')}/`
FolderPrefix(pathSegments) ==
    <<"attachments", "/">> \o Join(sanitizeSegments(pathSegments), <<"/">>) \o <<"/">>

\* what reading a stream that createReadStream opened on a directory gives
StreamError == <<"error", "EISDIR">>

\* if (fs.existsSync(filePath))
LocalHit(filePath, ds, fs) == existsSync(filePath, ds, fs)

\* the mutant hands on what the response holds, with no fallback
getFileStreamInNoFallback(remote, b, ds, fs, key, io) ==
    IF remote
    THEN IF io # "ok" \/ key \notin DOMAIN b THEN Thrown(io # "ok", b, ds, fs)
         ELSE Outcome("ok", FALSE, <<>>, b[key].body, b[key].contentType, key, <<>>, b, ds, fs)
    ELSE LET filePath == PathJoin(uploadsDir, <<key>>)
         IN  IF LocalHit(filePath, ds, fs)
             THEN Outcome("ok", FALSE, <<>>,
                          IF filePath \in DOMAIN fs THEN fs[filePath] ELSE StreamError,
                          OctetStream, <<>>, filePath, b, ds, fs)
             ELSE Thrown(FALSE, b, ds, fs)

\* getFileStream(key) of a service in the given mode, on the bucket b and
\* the disk (ds, fs)
getFileStreamIn(remote, b, ds, fs, key, io) ==
    IF remote
    THEN IF io # "ok" \/ key \notin DOMAIN b THEN Thrown(io # "ok", b, ds, fs)
         ELSE Outcome("ok", FALSE, <<>>, b[key].body,
                      IF b[key].contentType # <<>> THEN b[key].contentType ELSE OctetStream,
                      key, <<>>, b, ds, fs)
    ELSE LET filePath == PathJoin(uploadsDir, <<key>>)
         IN  IF LocalHit(filePath, ds, fs)
             THEN Outcome("ok", FALSE, <<>>,
                          IF filePath \in DOMAIN fs THEN fs[filePath] ELSE StreamError,
                          OctetStream, <<>>, filePath, b, ds, fs)
             ELSE Thrown(FALSE, b, ds, fs)

getFileStreamOn(b, ds, fs, key, io) == getFileStreamIn(Remote, b, ds, fs, key, io)

getFileStream(key, io) == getFileStreamOn(s3, dirs, files, key, io)

(***************************************************************************)
(* Calls                                                                   *)
(***************************************************************************)
Call(op, arg, segs, r) ==
    [op |-> op, arg |-> arg, segs |-> segs, blob |-> NoBlob, status |-> r.status,
     url |-> r.url, type |-> r.type, name |-> r.name, body |-> r.body, ctype |-> r.ctype,
     path |-> r.path, failed |-> r.failed, res |-> NoResponse]

(***************************************************************************)
(* UploadsController.  The repository holds the controller twice: one copy *)
(* joins a wildcard parameter that arrives as an array of segments, the    *)
(* copy under tm_backend/src/uploads uses the parameter as it arrives.     *)
(* The path of a request is the reference as the store returned it.        *)
(***************************************************************************)
Controllers == {"joining", "tm_backend"}

\* String(array), as a template literal gives it: the elements joined by ","
ArrayToString(segments) == Join(segments, <<",">>)

\* @Get('file/*key')
getFile(controller, key) ==
    IF controller = "joining" THEN Join(key, <<"/">>) ELSE ArrayToString(key)

\* @Get('avatars/:filename')
getAvatar(controller, filename) == <<"avatars", "/">> \o filename

\* @Get('attachments/*path')
getAttachment(controller, path) ==
    <<"attachments", "/">> \o (IF controller = "joining" THEN Join(path, <<"/">>)
                                ELSE ArrayToString(path))

\* the router: the key the matching route hands to streamFile for a request
\* path (<<"no route">> when none matches); a wildcard parameter is the
\* array of the segments it matched
Route(controller, url) ==
    IF StartsWith(url, ProxyPrefix) /\ Len(url) > Len(ProxyPrefix)
    THEN getFile(controller, Split(Drop(url, Len(ProxyPrefix))))
    ELSE IF /\ StartsWith(url, UploadsPrefix \o <<"avatars", "/">>)
            /\ Len(Split(Drop(url, Len(UploadsPrefix)))) = 2
    THEN getAvatar(controller, Drop(url, Len(UploadsPrefix) + 2))
    ELSE IF /\ StartsWith(url, UploadsPrefix \o <<"attachments", "/">>)
            /\ Len(url) > Len(UploadsPrefix) + 2
    THEN getAttachment(controller, Split(Drop(url, Len(UploadsPrefix) + 2)))
    ELSE <<"no route">>

\* the mutant lets a backend error that is no missing key through as a 500
streamFileBackendError(r) ==
    IF r.status = "throw"
    THEN [code |-> IF r.failed THEN 500 ELSE 404, sent |-> <<>>]
    ELSE [code |-> 200,
          sent |-> << <<"Content-Type", r.ctype>>, <<"Content-Disposition", <<"inline">>>>,
                      <<"body", r.body>> >>]

\* UploadsController.streamFile(key, res) on what getFileStream gave: the
\* status code of the response and what was sent, in order.  Any error is
\* caught and answered with NotFoundException; otherwise res.set puts the
\* two headers and stream.pipe(res) sends the bytes.
streamFile(r) ==
    IF r.status = "throw"
    THEN [code |-> 404, sent |-> <<>>]
    ELSE [code |-> 200,
          sent |-> << <<"Content-Type", r.ctype>>, <<"Content-Disposition", <<"inline">>>>,
                      <<"body", r.body>> >>]

\* the call record of a read: the response the controller gives
ReadCall(key, r) == [Call("getFileStream", key, <<>>, r) EXCEPT !.res = streamFile(r)]

\* the call record of a store: the blob it was given
StoreCall(op, file, segs, r) == [Call(op, <<>>, segs, r) EXCEPT !.blob = file]

\* what a store left and returned; ctype is the ContentType of its put
Stored(op, segs, filename, r) ==
    [op |-> op, url |-> r.url, body |-> r.body, ctype |-> r.ctype, key |-> r.key,
     path |-> r.path, segs |-> segs, filename |-> filename]

\* the fates of a backend call: it succeeds, it fails, or (a local write) it
\* fails after the file was opened
Fates == IF Remote THEN {"ok", "fail"} ELSE {"ok", "fail", "partial"}

\* the key a caller takes from a reference before reading
KeyOfUrl(url) ==
    IF StartsWith(url, ProxyPrefix) THEN Drop(url, Len(ProxyPrefix))
    ELSE StripPrefix(url, UploadsPrefix)

IssuedUrls == {issued[i].url : i \in 1..Len(issued)}

\* the absolute URL of an object, the shape of the references of old
LegacyUrl(key) == LegacyPrefix \o <<"/">> \o key

\* the old references callers of a service in remote mode still hold
LegacyUrls == IF Remote THEN {LegacyUrl(issued[i].key) : i \in 1..Len(issued)} ELSE {}

\* the reference the earlier deployment gave for the file it left
LeftoverRef == <<"/", "uploads", "/", "avatars", "/", "old", ".", "webp">>

\* references no store of this service returned: a directory, a string
\* new URL() rejects and, where an earlier deployment left a tree, the
\* reference it gave
OtherRefs == {<<"/", "uploads", "/", "avatars">>, <<"http">>}
             \cup (IF AvatarsDir \in dirs /\ Remote THEN {LeftoverRef} ELSE {})

\* a key that names the file next to the uploads directory: "../package.json"
OutsideKey == <<".", ".", "/", "package", ".", "json">>

\* keys no store returned: the base directory, one of its subtrees and
\* either the key of the file outside (of a service on its own disk) or
\* the key of the object the bucket held before
OtherKeys == {<<>>, <<"avatars">>} \cup (IF Remote THEN {UntypedKey} ELSE {OutsideKey})

\* the mutant gives up the client when a call failed
ApplyDroppingClient(r) ==
    /\ s3' = r.s3
    /\ dirs' = r.dirs
    /\ files' = r.files
    /\ s3Client' = (s3Client /\ ~r.failed)
    /\ UNCHANGED <<forms, cfg, bucketName, pending, serial>>

\* a method changes the bucket and the disk; no method assigns
\* this.s3Client, this.bucketName or the configuration.  Here each call
\* runs from its start to its end with no other call in between.
Apply(r) ==
    /\ s3' = r.s3
    /\ dirs' = r.dirs
    /\ files' = r.files
    /\ UNCHANGED <<forms, cfg, s3Client, bucketName, pending, serial>>

\* uuidv4(): a fresh value each time.  The uuid of a call that left nothing
\* behind is seen nowhere, so the next call may be given the same token.
DrawUuid(r) == nextId' = IF r.status = "ok" \/ r.files # files THEN nextId + 1 ELSE nextId

\* a fault is an input of the calls that reach the backend
Reached(r, io) == io = "ok" \/ r.failed

SaveAvatar ==
    \E file \in {Pic}, io \in Fates :
        /\ nextId < MaxStores
        /\ LET uuid == Uuids[nextId + 1]
           IN  \E r \in {saveAvatar(file, uuid, io)} :
                   /\ Apply(r)
                   /\ DrawUuid(r)
                   /\ issued' = IF r.status = "ok"
                                THEN Append(issued,
                                            Stored("saveAvatar", <<>>, AvatarFilename(uuid), r))
                                ELSE issued
                   /\ last' = StoreCall("saveAvatar", file, <<>>, r)

SaveAttachment ==
    \E req \in AttachmentRequests, io \in Fates :
        /\ nextId < MaxStores
        /\ LET file == req[1]
               pathSegments == req[2]
               uuid == Uuids[nextId + 1]
           IN  \E r \in {saveAttachment(file, pathSegments, uuid, io)} :
                   /\ Apply(r)
                   /\ DrawUuid(r)
                   /\ issued' = IF r.status = "ok"
                                THEN Append(issued, Stored("saveAttachment", pathSegments,
                                            AttachmentFilename(uuid, file.originalname), r))
                                ELSE issued
                   /\ last' = StoreCall("saveAttachment", file, pathSegments, r)

DeleteFile ==
    \E fileUrl \in IssuedUrls \cup LegacyUrls \cup OtherRefs, io \in Fates \ {"partial"} :
        \E r \in {deleteFile(fileUrl, io)} :
            /\ Reached(r, io)
            /\ Apply(r)
            /\ last' = Call("deleteFile", fileUrl, <<>>, r)
            /\ UNCHANGED <<nextId, issued>>

DeleteFolder ==
    \E pathSegments \in SegmentLists, io \in Fates \ {"partial"} :
        \E page \in ListObjectsV2(s3, FolderPrefix(pathSegments)) :
            \E r \in {deleteFolder(pathSegments, io, page)} :
                /\ Reached(r, io)
                /\ Apply(r)
                /\ last' = Call("deleteFolder", <<>>, pathSegments, r)
                /\ UNCHANGED <<nextId, issued>>

GetFileStream ==
    \E key \in {KeyOfUrl(u) : u \in IssuedUrls} \cup OtherKeys, io \in Fates \ {"partial"} :
        \E r \in {getFileStream(key, io)} :
            /\ Reached(r, io)
            /\ Apply(r)
            /\ last' = ReadCall(key, r)
            /\ UNCHANGED <<nextId, issued>>

Next == SaveAvatar \/ SaveAttachment \/ DeleteFile \/ DeleteFolder \/ GetFileStream

Spec == Init /\ [][Next]_vars

(***************************************************************************)
(* Overlapping calls.  Node runs a call until its next await, so a call     *)
(* whose backend work is synchronous (every local store and delete) or one  *)
(* request (a put, a single delete) takes effect in one step.  Two calls    *)
(* take effect in two steps with other calls in between:                    *)
(*  - deleteFolder in remote mode awaits the list response and then sends   *)
(*    the batch delete;                                                     *)
(*  - getFileStream in local mode returns fs.createReadStream(filePath),    *)
(*    which opens the file later, when the stream is constructed.           *)
(***************************************************************************)
StoresOf(r) == [s3 |-> r.s3, dirs |-> r.dirs, files |-> r.files]

\* the state variables a step of a call writes
Write(r) ==
    /\ s3' = r.s3
    /\ dirs' = r.dirs
    /\ files' = r.files
    /\ UNCHANGED <<forms, cfg, s3Client, bucketName>>

\* the attachments the overlapping callers store
OverlapRequests == {<<Notes, <<>>>>, <<Pic, <<SegPA, SegDots>>>>}

PendingFolders == {c \in pending : c.kind = "deleteFolder"}

PendingStreams == {c \in pending : c.kind = "stream"}

OverlapSaveAvatar ==
    \E file \in {Pic}, io \in {"ok", "fail"} :
        /\ nextId < MaxStores
        /\ LET uuid == Uuids[nextId + 1]
               r == saveAvatar(file, uuid, io)
           IN  /\ Write(r)
               /\ DrawUuid(r)
               /\ issued' = IF r.status = "ok"
                            THEN Append(issued, Stored("saveAvatar", <<>>, AvatarFilename(uuid), r))
                            ELSE issued
               /\ last' = Call("saveAvatar", <<>>, <<>>, r)
               /\ serial' = {StoresOf(saveAvatarIn(Remote, x.s3, x.dirs, x.files, file, uuid, io)) :
                                x \in serial}
               /\ UNCHANGED pending

OverlapSaveAttachment ==
    \E req \in OverlapRequests, io \in {"ok", "fail"} :
        /\ nextId < MaxStores
        /\ LET file == req[1]
               pathSegments == req[2]
               uuid == Uuids[nextId + 1]
               r == saveAttachment(file, pathSegments, uuid, io)
           IN  /\ Write(r)
               /\ DrawUuid(r)
               /\ issued' = IF r.status = "ok"
                            THEN Append(issued, Stored("saveAttachment", pathSegments,
                                        AttachmentFilename(uuid, file.originalname), r))
                            ELSE issued
               /\ last' = Call("saveAttachment", <<>>, pathSegments, r)
               /\ serial' = {StoresOf(saveAttachmentIn(Remote, x.s3, x.dirs, x.files,
                                                       file, pathSegments, uuid, io)) :
                                x \in serial}
               /\ UNCHANGED pending

OverlapDeleteFile ==
    \E fileUrl \in IssuedUrls, io \in {"ok", "fail"} :
        LET r == deleteFile(fileUrl, io)
        IN  /\ Reached(r, io)
            /\ Write(r)
            /\ last' = Call("deleteFile", fileUrl, <<>>, r)
            /\ serial' = {StoresOf(deleteFileIn(Remote, x.s3, x.dirs, x.files, fileUrl, io)) :
                             x \in serial}
            /\ UNCHANGED <<nextId, issued, pending>>

\* what deleteFolder gives when it runs alone on the stores x
SerialDeleteFolder(x, pathSegments, io) ==
    {StoresOf(deleteFolderIn(Remote, x.s3, x.dirs, x.files, pathSegments, io, page)) :
        page \in ListObjectsV2(x.s3, FolderPrefix(pathSegments))}

\* deleteFolder in local mode: existsSync and rmSync, no await in between
OverlapDeleteFolderLocal ==
    \E pathSegments \in SegmentLists, io \in {"ok", "fail"} :
        LET r == deleteFolder(pathSegments, io, {})
        IN  /\ ~Remote
            /\ Reached(r, io)
            /\ Write(r)
            /\ last' = Call("deleteFolder", <<>>, pathSegments, r)
            /\ serial' = UNION {SerialDeleteFolder(x, pathSegments, io) : x \in serial}
            /\ UNCHANGED <<nextId, issued, pending>>

\* deleteFolder in remote mode, up to the await of the list response: the
\* bucket answers with a page of the keys it holds now.  A list that fails
\* ends the call (the error is logged).
ListFolder ==
    \E pathSegments \in SegmentLists, io \in {"ok", "fail"} :
        \E page \in ListObjectsV2(s3, FolderPrefix(pathSegments)) :
            /\ Remote
            /\ PendingFolders = {}
            /\ IF io = "ok"
               THEN /\ pending' = pending \cup {[kind |-> "deleteFolder", segs |-> pathSegments,
                                                  page |-> page, key |-> <<>>, path |-> <<>>]}
                    /\ UNCHANGED <<last, serial>>
               ELSE /\ last' = Call("deleteFolder", <<>>, pathSegments,
                                    deleteFolder(pathSegments, io, page))
                    /\ UNCHANGED <<pending, serial>>
            /\ UNCHANGED <<forms, cfg, s3Client, bucketName, s3, dirs, files, nextId, issued>>

\* deleteFolder in remote mode, from the list response to its end: the
\* batch delete of the keys that were listed (none: no request is sent)
BatchDelete ==
    \E c \in PendingFolders, io \in {"ok", "fail"} :
        LET r == IF io = "ok" THEN deleteFolder(c.segs, "ok", c.page)
                 ELSE Outcome(LogAndSwallow(FALSE), TRUE, <<>>, NoBytes, <<>>, <<>>, <<>>,
                              s3, dirs, files)
        IN  /\ io = "ok" \/ c.page # {}
            /\ Write(r)
            /\ last' = Call("deleteFolder", <<>>, c.segs, r)
            /\ pending' = pending \ {c}
            /\ serial' = UNION {SerialDeleteFolder(x, c.segs, io) : x \in serial}
            /\ UNCHANGED <<nextId, issued>>

\* getFileStream in local mode, up to its return: existsSync, then
\* createReadStream hands out a stream that has not opened the file yet
ReturnStream ==
    \E key \in {KeyOfUrl(u) : u \in IssuedUrls} :
        LET r == getFileStream(key, "ok")
        IN  /\ ~Remote
            /\ PendingStreams = {}
            /\ IF r.status = "ok"
               THEN /\ pending' = pending \cup {[kind |-> "stream", segs |-> <<>>, page |-> {},
                                                  key |-> key, path |-> r.path]}
                    /\ UNCHANGED last
               ELSE /\ last' = Call("getFileStream", key, <<>>, r)
                    /\ UNCHANGED pending
            /\ UNCHANGED <<forms, cfg, s3Client, bucketName, s3, dirs, files, nextId, issued, serial>>

\* what a stream gives when fs.open finds no file
OpenError == <<"error", "ENOENT">>

\* the stream opens its file and is read to the end
OpenStream ==
    \E c \in PendingStreams :
        /\ last' = Call("getFileStream", c.key, <<>>,
                        Outcome("ok", FALSE, <<>>,
                                IF c.path \in DOMAIN files THEN files[c.path] ELSE OpenError,
                                OctetStream, <<>>, c.path, s3, dirs, files))
        /\ pending' = pending \ {c}
        /\ UNCHANGED <<forms, cfg, s3Client, bucketName, s3, dirs, files, nextId, issued, serial>>

\* getFileStream in remote mode: one GetObject request
OverlapGetObject ==
    \E key \in {KeyOfUrl(u) : u \in IssuedUrls}, io \in {"ok", "fail"} :
        LET r == getFileStream(key, io)
        IN  /\ Remote
            /\ Reached(r, io)
            /\ last' = Call("getFileStream", key, <<>>, r)
            /\ UNCHANGED <<forms, cfg, s3Client, bucketName, s3, dirs, files, nextId, issued,
                           pending, serial>>

NextOverlap ==
    \/ OverlapSaveAvatar
    \/ OverlapSaveAttachment
    \/ OverlapDeleteFile
    \/ OverlapDeleteFolderLocal
    \/ ListFolder
    \/ BatchDelete
    \/ ReturnStream
    \/ OpenStream
    \/ OverlapGetObject

SpecOverlap == Init /\ [][NextOverlap]_vars

(***************************************************************************)
(* Two services side by side, one constructed in remote mode and one in    *)
(* local mode, given the same calls: s3 is the bucket of the first, dirs   *)
(* and files are the disk of the second.  Every backend request succeeds.  *)
(***************************************************************************)
RemoteConfig == CHOOSE c \in Configs : HasClient(c)

LocalConfig == CHOOSE c \in Configs : ~HasClient(c)

\* one path segment that is the empty string
SegEmpty == <<>>

PairSegmentLists == SegmentLists \cup {<<SegEmpty>>}

PairRequests == {<<Notes, <<>>>>, <<Pic, <<SegPA, SegDots>>>>, <<Notes, <<SegEmpty>>>>}

\* what the two services returned for one store
PairStored(segs, filename, rr, lr) ==
    [op |-> "saveAttachment", url |-> rr.url, localUrl |-> lr.url, body |-> rr.body,
     key |-> rr.key, path |-> lr.path, segs |-> segs, filename |-> filename]

PairCall(op, arg, segs) == [NoCall EXCEPT !.op = op, !.arg = arg, !.segs = segs]

InitPair ==
    /\ cfg = RemoteConfig
    /\ s3Client = Constructor(RemoteConfig, EmptyDisk).s3Client
    /\ bucketName = Constructor(RemoteConfig, EmptyDisk).bucketName
    /\ s3 = NoObjects
    /\ dirs = Constructor(LocalConfig, EmptyDisk).dirs
    /\ files = NoFiles
    /\ nextId = 0
    /\ issued = <<>>
    /\ last = NoCall
    /\ pending = {}
    /\ serial = {}
    /\ forms = FreshClient

PairSaveAttachment ==
    \E req \in PairRequests :
        /\ nextId < MaxStores
        /\ LET file == req[1]
               pathSegments == req[2]
               uuid == Uuids[nextId + 1]
               rr == saveAttachmentIn(TRUE, s3, {}, NoFiles, file, pathSegments, uuid, "ok")
               lr == saveAttachmentIn(FALSE, NoObjects, dirs, files, file, pathSegments, uuid, "ok")
           IN  /\ s3' = rr.s3
               /\ dirs' = lr.dirs
               /\ files' = lr.files
               /\ nextId' = nextId + 1
               /\ issued' = Append(issued, PairStored(pathSegments,
                                       AttachmentFilename(uuid, file.originalname), rr, lr))
               /\ last' = PairCall("saveAttachment", <<>>, pathSegments)
               /\ UNCHANGED <<forms, cfg, s3Client, bucketName, pending, serial>>

PairDeleteFile ==
    \E i \in 1..Len(issued) :
        LET rr == deleteFileIn(TRUE, s3, {}, NoFiles, issued[i].url, "ok")
            lr == deleteFileIn(FALSE, NoObjects, dirs, files, issued[i].localUrl, "ok")
        IN  /\ s3' = rr.s3
            /\ dirs' = lr.dirs
            /\ files' = lr.files
            /\ last' = PairCall("deleteFile", issued[i].url, <<>>)
            /\ UNCHANGED <<forms, cfg, s3Client, bucketName, nextId, issued, pending, serial>>

PairDeleteFolder ==
    \E pathSegments \in PairSegmentLists :
        \E page \in ListObjectsV2(s3, FolderPrefix(pathSegments)) :
            LET rr == deleteFolderIn(TRUE, s3, {}, NoFiles, pathSegments, "ok", page)
                lr == deleteFolderIn(FALSE, NoObjects, dirs, files, pathSegments, "ok", {})
            IN  /\ s3' = rr.s3
                /\ dirs' = lr.dirs
                /\ files' = lr.files
                /\ last' = PairCall("deleteFolder", <<>>, pathSegments)
                /\ UNCHANGED <<forms, cfg, s3Client, bucketName, nextId, issued, pending, serial>>

NextPair == PairSaveAttachment \/ PairDeleteFile \/ PairDeleteFolder

SpecPair == InitPair /\ [][NextPair]_vars

(***************************************************************************)
(* The web client: LoginPage and RegisterPage.  A component's state lives  *)
(* as long as the page is mounted; a request goes on when the user leaves  *)
(* the page, and what follows its await then runs on a component that is   *)
(* no longer mounted, where React drops the state updates.  The statements *)
(* between two awaits run without interruption; log keeps their order.     *)
(***************************************************************************)
FormPages == {"/login", "/register"}

\* api.post(...)
Endpoint(page) == IF page = "/login" THEN "/auth/login" ELSE "/auth/register"

\* setError("...") in the catch block
ErrorMessage(page) ==
    IF page = "/login" THEN "Credenciales invalidas o error en el servidor."
    ELSE "Error al registrarse. El email podria estar en uso."

\* response.data.access_token of the n-th request
AccessToken(n) == <<"token", n>>

Event(sub, ev, arg) == [sub |-> sub, ev |-> ev, arg |-> arg]

\* the await of api.post ends: with the response, or with an error thrown
Answered(c, q, how) == [c EXCEPT !.log = Append(@, Event(q.sub, "await", how))]

\* a state update of the component that sent the request q: dropped when
\* that component is no longer the mounted one
SetState(c, q, field, value) ==
    IF c.page.mount = q.mount THEN [c EXCEPT !.page[field] = value] ELSE c

\* onSubmit up to its await: setIsLoading(true); setError(null); api.post
onSubmitStart(c) ==
    LET n == c.sent + 1
        q == [sub |-> n, page |-> c.page.route, mount |-> c.page.mount]
        c1 == SetState(c, q, "isLoading", TRUE)
        c2 == SetState(c1, q, "error", NoError)
    IN  [c2 EXCEPT !.page.fieldErrors = FALSE,
                   !.sent = n,
                   !.flying = @ \cup {q},
                   !.log = @ \o << Event(n, "setIsLoading", "true"),
                                   Event(n, "setError", NoError),
                                   Event(n, "post", Endpoint(q.page)) >>]

\* router.push("/dashboard"): the dashboard replaces the mounted page
Push(c, route) ==
    IF c.page.route = route THEN c
    ELSE [c EXCEPT !.page = Mounted(route, c.page.mount + 1)]

\* onSubmit after its await when the request succeeded: login(...);
\* router.push("/dashboard"); finally setIsLoading(false)
onSubmitResolved(c, q) ==
    LET c1 == [c EXCEPT !.auth = AccessToken(q.sub)]
        c2 == SetState(c1, q, "isLoading", FALSE)
        c3 == Push(c2, "/dashboard")
    IN  [c3 EXCEPT !.flying = @ \ {q},
                   !.log = @ \o << Event(q.sub, "login", "access_token"),
                                   Event(q.sub, "push", "/dashboard"),
                                   Event(q.sub, "setIsLoading", "false") >>]

\* the mutant has no finally block
onSubmitRejectedNoFinally(c, q) ==
    LET c1 == SetState(c, q, "error", ErrorMessage(q.page))
    IN  [c1 EXCEPT !.flying = @ \ {q},
                   !.log = @ \o << Event(q.sub, "setError", ErrorMessage(q.page)) >>]

\* onSubmit after its await when the request failed: catch setError(...);
\* finally setIsLoading(false)
onSubmitRejected(c, q) ==
    LET c1 == SetState(c, q, "error", ErrorMessage(q.page))
        c2 == SetState(c1, q, "isLoading", FALSE)
    IN  [c2 EXCEPT !.flying = @ \ {q},
                   !.log = @ \o << Event(q.sub, "setError", ErrorMessage(q.page)),
                                   Event(q.sub, "setIsLoading", "false") >>]

\* the storage service is not part of the web client
ClientOnly ==
    UNCHANGED <<cfg, s3Client, bucketName, s3, dirs, files, nextId, issued, last, pending,
                serial>>

InitForms ==
    /\ cfg = LocalConfig
    /\ s3Client = FALSE
    /\ bucketName = LocalConfig.bucketName
    /\ s3 = NoObjects
    /\ dirs = {}
    /\ files = NoFiles
    /\ nextId = 0
    /\ issued = <<>>
    /\ last = NoCall
    /\ pending = {}
    /\ serial = {}
    /\ \E route \in FormPages :
          forms = [FreshClient EXCEPT !.page = Mounted(route, 1)]

\* the user submits the form with values the schema accepts: handleSubmit
\* calls onSubmit.  The button is disabled while isLoading.
Submit ==
    /\ forms.page.route \in FormPages
    /\ ~forms.page.isLoading
    /\ forms.sent < MaxSubmits
    /\ forms' = onSubmitStart(forms)
    /\ ClientOnly

\* the user submits values the schema rejects: handleSubmit shows the
\* field errors and does not call onSubmit
SubmitInvalid ==
    /\ forms.page.route \in FormPages
    /\ ~forms.page.isLoading
    /\ ~forms.page.fieldErrors
    /\ forms' = [forms EXCEPT !.page.fieldErrors = TRUE]
    /\ ClientOnly

\* the server answers a request with 2xx
RequestResolves ==
    \E q \in forms.flying :
        /\ forms' = onSubmitResolved(Answered(forms, q, "response"), q)
        /\ ClientOnly

\* the server refuses a request, or the network fails
RequestRejects ==
    \E q \in forms.flying :
        /\ forms' = onSubmitRejected(Answered(forms, q, "error"), q)
        /\ ClientOnly

\* the user follows the link to the other form, or opens a form again
\* from the dashboard: the page mounts with fresh state
Visit ==
    \E route \in FormPages \ {forms.page.route} :
        /\ forms.visits < MaxVisits
        /\ forms' = [forms EXCEPT !.page = Mounted(route, forms.page.mount + 1),
                                  !.visits = @ + 1]
        /\ ClientOnly

NextForms == Submit \/ SubmitInvalid \/ RequestResolves \/ RequestRejects \/ Visit

SpecForms == InitForms /\ [][NextForms]_vars

(***************************************************************************)
(* Properties                                                              *)
(***************************************************************************)
Stores == {"saveAvatar", "saveAttachment"}

Deletes == {"deleteFile", "deleteFolder"}

\* what getFileStream gives for the key of a reference when the backend
\* answers: now, and after the step
Read(url) == getFileStreamOn(s3, dirs, files, KeyOfUrl(url), "ok")

ReadNext(url) == getFileStreamOn(s3', dirs', files', KeyOfUrl(url), "ok")

\* the reference reads back as these bytes
ReadsAs(url, bytes) == Read(url).status = "ok" /\ Read(url).body = bytes

ReadsNextAs(url, bytes) == ReadNext(url).status = "ok" /\ ReadNext(url).body = bytes

Attachments == {i \in 1..Len(issued) : issued[i].op = "saveAttachment"}

IsPrefixSeq(s, t) == Len(s) <= Len(t) /\ SubSeq(t, 1, Len(s)) = s

AllTokensIn(s, S) == \A n \in 1..Len(s) : s[n] \in S

\* C1: a successful saveAttachment followed by getFileStream on the key of
\* the returned reference yields the bytes stored, as long as no delete is
\* issued in between: the store's own result reads back, and every call
\* that is not a delete keeps each attachment that read back readable with
\* its bytes.
C1_RoundTrip ==
    [][/\ (last'.op = "saveAttachment" /\ last'.status = "ok")
            => ReadsNextAs(last'.url, last'.body)
       /\ \A i \in Attachments :
            (last'.op \notin Deletes /\ ReadsAs(issued[i].url, issued[i].body))
            => ReadsNextAs(issued[i].url, issued[i].body)]_vars

\* C2: the constructor selects remote mode exactly when region, access key,
\* secret key and bucket name are all non-empty, with or without a session
\* token.
C2_ModeSelection ==
    s3Client <=> (cfg.region # "" /\ cfg.accessKeyId # "" /\ cfg.secretAccessKey # ""
                  /\ cfg.bucketName # "")

\* C3: after deleteFolder(S) none of the attachments stored under segment
\* sequences beginning with S can be read any more.  Stated for the remote
\* calls whose backend requests all succeeded, with a non-empty S.
C3_DeleteFolderRemovesAll ==
    (last.op = "deleteFolder" /\ ~last.failed /\ Remote /\ last.segs # <<>>)
    => \A i \in Attachments :
          IsPrefixSeq(last.segs, issued[i].segs) => Read(issued[i].url).status = "throw"

SameStores == s3' = s3 /\ files' = files /\ dirs' = dirs

SecondDeleteFile == last.op = "deleteFile" /\ last'.op = "deleteFile" /\ last'.arg = last.arg

\* C4 as claimed: deleteFile and deleteFolder always end normally, and a
\* deleteFile called again on the same reference changes no stored object.
C4_DeletesNeverRaise_Original ==
    [][/\ last'.op \in Deletes => last'.status = "ok"
       /\ SecondDeleteFile => SameStores]_vars

\* C4: deleteFile and deleteFolder always end normally, whatever the
\* reference or segments and whether or not the call inside failed; and a
\* deleteFile called again on the same reference, after a first call that
\* met no error, changes no stored object.
C4_DeletesNeverRaise ==
    [][/\ last'.op \in Deletes => last'.status = "ok"
       /\ (SecondDeleteFile /\ ~last.failed) => SameStores]_vars

\* a deleteFile whose backend call failed has ended normally, on the
\* reference of an attachment an earlier delete removed
C4_Witness ==
    /\ last.op = "deleteFile" /\ last.failed /\ last.status = "ok"
    /\ last.arg \in IssuedUrls
    /\ Read(last.arg).status = "throw"

\* the segments of a store contain "../", a space or an upper-case letter
Unclean(segs) == \E n \in 1..Len(segs) : ~AllTokensIn(segs[n], KeptTokens)

\* the part of a key or reference before the stored filename
BeforeFilename(s, filename) == SubSeq(s, 1, Len(s) - Len(filename))

EndsWith(s, suffix) ==
    Len(s) >= Len(suffix) /\ SubSeq(s, Len(s) - Len(suffix) + 1, Len(s)) = suffix

\* C5 as claimed: when the path segments contain "../", spaces or upper-case
\* letters, the whole storage key and the whole local path, original
\* filename included, consist of [a-z0-9_-] and "/" separators only.
C5_Sanitized_Original ==
    \A i \in Attachments :
        Unclean(issued[i].segs)
        => /\ AllTokensIn(issued[i].key, KeptTokens \cup {"/"})
           /\ \A n \in 1..Len(issued[i].path) : AllTokensIn(issued[i].path[n], KeptTokens)

\* C5: every path segment is sanitized before it is used: the storage key
\* and the reference end with "<uuid>-<original filename>", kept as given,
\* and what stands before it consists of [a-z0-9_-] and "/" only; every
\* directory below the local attachments directory has a name of
\* [a-z0-9_-] only.
C5_Sanitized ==
    /\ \A i \in Attachments :
          /\ EndsWith(issued[i].url, issued[i].filename)
          /\ AllTokensIn(BeforeFilename(issued[i].url, issued[i].filename), KeptTokens \cup {"/"})
          /\ Remote => /\ EndsWith(issued[i].key, issued[i].filename)
                       /\ AllTokensIn(BeforeFilename(issued[i].key, issued[i].filename),
                                      KeptTokens \cup {"/"})
    /\ \A d \in dirs :
          IsPrefixPath(AttachmentsDir, d)
          => \A n \in (Len(AttachmentsDir) + 1)..Len(d) : AllTokensIn(d[n], KeptTokens)

\* an attachment was stored under the segments "P A", "../"
C5_Witness == \E i \in Attachments : issued[i].segs = <<SegPA, SegDots>>

\* C6: a reference, when a store returns it, tells the mode (it starts with
\* "/uploads/file/" exactly in remote mode) and the place of the object
\* (its key, or its path under the base directory); a deleteFile on it that
\* met no error removes that object and nothing else, and getFileStream on
\* its key then fails.
C6_DeleteParsesBack ==
    [][/\ \A i \in (Len(issued) + 1)..Len(issued') :
            /\ StartsWith(issued'[i].url, ProxyPrefix) <=> Remote
            /\ IF Remote THEN KeyOfUrl(issued'[i].url) = issued'[i].key
               ELSE PathJoin(uploadsDir, <<KeyOfUrl(issued'[i].url)>>) = issued'[i].path
       /\ \A i \in 1..Len(issued) :
            (last'.op = "deleteFile" /\ last'.arg = issued[i].url /\ ~last'.failed)
            => /\ IF Remote
                  THEN s3' = FnDel(s3, {issued[i].key}) /\ files' = files
                  ELSE files' = FnDel(files, {issued[i].path}) /\ s3' = s3
               /\ dirs' = dirs
               /\ ReadNext(issued[i].url).status = "throw"]_vars

\* a deleteFile on a returned reference met no error, and the reference no
\* longer reads
C6_Witness ==
    /\ last.op = "deleteFile" /\ ~last.failed
    /\ last.arg \in IssuedUrls
    /\ Read(last.arg).status = "throw"

\* C7: a store whose backend write fails ends with an error, returns no
\* reference and leaves no new object and no new file.
C7_FailedStoreLeavesNothing ==
    [][(last'.op \in Stores /\ last'.status = "throw")
       => /\ last'.url = <<>>
          /\ DOMAIN s3' = DOMAIN s3
          /\ DOMAIN files' = DOMAIN files]_vars

\* the key names an object of the bucket, or a regular file under the base
Resolves(key) ==
    IF Remote THEN key \in DOMAIN s3 ELSE PathJoin(uploadsDir, <<key>>) \in DOMAIN files

\* C8: getFileStream returns a stream only for a key that resolves to a
\* stored object or a regular file, and fails for every other key, a key
\* that resolves to a directory included.
C8_NotFound ==
    last.op = "getFileStream" => (last.status = "ok" => Resolves(last.arg))

\* C9: a successful store creates exactly one new object or file, at a
\* place no earlier store used, and every object stored before keeps its
\* bytes.
C9_NoOverwrite ==
    [][(last'.op \in Stores /\ last'.status = "ok")
       => IF Remote
          THEN /\ Cardinality(DOMAIN s3' \ DOMAIN s3) = 1
               /\ \A k \in DOMAIN s3 : k \in DOMAIN s3' /\ s3'[k] = s3[k]
          ELSE /\ Cardinality(DOMAIN files' \ DOMAIN files) = 1
               /\ \A f \in DOMAIN files : f \in DOMAIN files' /\ files'[f] = files[f]]_vars

\* C10: the mode the constructor chose never changes (same client, same
\* bucket name, same configuration after every call), and a call that
\* failed on the active backend leaves the other backend untouched.
C10_ModeImmutable ==
    [][/\ s3Client' = s3Client /\ bucketName' = bucketName /\ cfg' = cfg
       /\ s3Client' = HasClient(cfg')
       /\ last'.failed => IF Remote THEN files' = files /\ dirs' = dirs ELSE s3' = s3]_vars

\* a store failed in remote mode and nothing was written to the disk
C10_Witness ==
    /\ last.op \in Stores /\ last.failed /\ last.status = "throw"
    /\ Remote /\ files = NoFiles

\* C11: in remote mode the service talks only to the bucket: the
\* constructor creates no directory and no call, a deleteFile with any
\* reference included, changes the directories or the files of the disk.
C11_RemoteLeavesDisk ==
    [][Remote => /\ \A d \in Disks(cfg) : Constructor(cfg, d).dirs = d.dirs
                 /\ files' = files /\ dirs' = dirs]_vars

\* C12: a stream getFileStream returned is never opened and then failed:
\* with deleteFile and deleteFolder calls running between the steps of a
\* local getFileStream, the call either fails before it returns or the
\* stream it returned delivers the bytes of the file.
C12_StreamNeverFailsOnOpen ==
    (last.op = "getFileStream" /\ last.status = "ok") => last.body[1] # "error"

\* C13: overlapping stores and deletes leave, once no call is suspended,
\* the stores that the same calls give when run one after the other in the
\* order they completed.
C13_CompletionOrder ==
    PendingFolders = {} => StoresOf([s3 |-> s3, dirs |-> dirs, files |-> files]) \in serial

\* what the service in remote mode and the service in local mode give for
\* the reference each returned for the i-th store
PairRemoteRead(i) == getFileStreamIn(TRUE, s3, {}, NoFiles, KeyOfUrl(issued[i].url), "ok")

PairLocalRead(i) ==
    getFileStreamIn(FALSE, NoObjects, dirs, files, KeyOfUrl(issued[i].localUrl), "ok")

\* C14: the backend is hidden from callers: after the same saveAttachment,
\* deleteFile and deleteFolder calls (empty segment list and empty-string
\* segments included) the two services have the same attachments
\* retrievable, with the same bytes, and the same ones not found.
C14_SameRetrievable ==
    \A i \in 1..Len(issued) :
        /\ PairRemoteRead(i).status = PairLocalRead(i).status
        /\ PairRemoteRead(i).body = PairLocalRead(i).body

\* the key the naming scheme gives: the namespace, the sanitized segments
\* and the filename joined by "/"
SchemeKey(i) ==
    IF issued[i].op = "saveAvatar" THEN <<"avatars", "/">> \o issued[i].filename
    ELSE Join(<< <<"attachments">> >> \o sanitizeSegments(issued[i].segs)
                 \o <<issued[i].filename>>, <<"/">>)

\* C15: the reference a store returns is the mode's prefix ("/uploads/file/"
\* in remote mode, "/uploads/" in local mode) followed by the storage key,
\* and the key is the namespace, the sanitized segments and the filename
\* joined by "/", a path with no empty component also when there are no
\* segments.
C15_ReferenceFromKey ==
    \A i \in 1..Len(issued) :
        /\ issued[i].url = (IF Remote THEN ProxyPrefix ELSE UploadsPrefix) \o SchemeKey(i)
        /\ Remote => issued[i].key = SchemeKey(i)
        /\ \A n \in 1..Len(Split(SchemeKey(i))) : Split(SchemeKey(i))[n] # <<>>

\* references of the three shapes for every key that was issued, and the
\* references no store returned
RefShapes ==
    UNION {{ProxyPrefix \o KeyOfUrl(u), LegacyUrl(KeyOfUrl(u)), UploadsPrefix \o KeyOfUrl(u)} :
              u \in IssuedUrls}
    \cup OtherRefs \cup {LeftoverRef}

\* the stores the dispatch by shape and mode leaves
Dispatched(ref) ==
    IF Remote /\ StartsWith(ref, ProxyPrefix)
    THEN [s3 |-> FnDel(s3, {Drop(ref, Len(ProxyPrefix))}), dirs |-> dirs, files |-> files]
    ELSE IF Remote /\ UrlParses(ref)
    THEN [s3 |-> FnDel(s3, {Drop(UrlPathname(ref), 1)}), dirs |-> dirs, files |-> files]
    ELSE [s3 |-> s3, dirs |-> dirs,
          files |-> FnDel(files, {PathJoin(uploadsDir, <<StripPrefix(ref, UploadsPrefix)>>)})]

\* C16: deleteFile dispatches by the shape of the reference and the mode.
\* In remote mode a reference that starts with "/uploads/file/" deletes the
\* object whose key is the rest of it, and an absolute http URL deletes the
\* object whose key is the URL's path without its leading slash; in every
\* other case the leading "/uploads/" is stripped and the file of that path
\* under the base directory is deleted if there is one.  With any of the
\* three shapes, in both modes, the call ends normally.
C16_DeleteDispatch ==
    \A ref \in RefShapes :
        \E r \in {deleteFile(ref, "ok")} :
            /\ r.status = "ok"
            /\ StoresOf(r) = Dispatched(ref)

\* a deleteFile in remote mode was given the absolute URL of an object that
\* a store returned, and the object is gone
C16_Witness ==
    /\ Remote /\ last.op = "deleteFile" /\ ~last.failed
    /\ \E i \in 1..Len(issued) :
          /\ last.arg = LegacyUrl(issued[i].key)
          /\ LegacyKey(last.arg) = issued[i].key
          /\ issued[i].key \notin DOMAIN s3

\* C17: saveAttachment returns the kind IMAGE exactly when the declared
\* MIME type starts with "image/" and FILE otherwise, returns the original
\* filename as it was given, and stores the bytes of the blob as they are,
\* in both modes.
C17_KindNameBytes ==
    (last.op = "saveAttachment" /\ last.status = "ok")
    => /\ last.type = (IF StartsWith(last.blob.mimetype, <<"image", "/">>) THEN "IMAGE" ELSE "FILE")
       /\ last.name = last.blob.originalname
       /\ ReadsAs(last.url, last.blob.buffer)

\* an attachment declared image/png was stored and returned as IMAGE
C17_Witness ==
    /\ last.op = "saveAttachment" /\ last.status = "ok"
    /\ last.blob = Pic /\ last.type = "IMAGE"

\* C18: the read path answers 404 exactly when getFileStream fails.  When
\* it fails, whatever the failure (a backend error that is no missing key
\* included), the response is 404 and no header and no byte was sent; when
\* it succeeds the response is no 404 and Content-Type, with the content
\* type returned, and Content-Disposition: inline are set before the bytes.
C18_NotFoundResponse ==
    last.op = "getFileStream"
    => IF last.status = "throw"
       THEN last.res.code = 404 /\ last.res.sent = <<>>
       ELSE /\ last.res.code # 404
            /\ last.res.sent = << <<"Content-Type", last.ctype>>,
                                  <<"Content-Disposition", <<"inline">>>>,
                                  <<"body", last.body>> >>

\* a read whose backend request failed was answered with 404
C18_Witness ==
    /\ last.op = "getFileStream" /\ last.failed
    /\ last.res.code = 404

\* C19: the read routes hand getFileStream the key under which the object
\* was stored: "file/*key" joins the wildcard's segments with "/" and
\* passes the result as it is, "avatars/:filename" passes "avatars/" and
\* the filename, "attachments/*path" passes "attachments/" and the joined
\* path; so the reference of every store, of either mode, reaches
\* getFileStream with the key (in local mode: the path under the base
\* directory) of its object.
C19_RoutesReachKey ==
    \A controller \in Controllers :
        \A i \in 1..Len(issued) :
            IF Remote THEN Route(controller, issued[i].url) = issued[i].key
            ELSE PathJoin(uploadsDir, <<Route(controller, issued[i].url)>>) = issued[i].path

\* C20: for a valid image, saveAvatar returns a reference whose key
\* getFileStream resolves to a stream of an image of exactly 256x256: the
\* blob resized and re-encoded.
C20_AvatarSize ==
    (last.op = "saveAvatar" /\ last.status = "ok")
    => /\ Read(last.url).status = "ok"
       /\ Read(last.url).body[1] = "webp256"
       /\ Read(last.url).body = Sharp(last.blob.buffer)

\* an avatar was stored from a valid image and its reference returned
C20_Witness ==
    /\ last.op = "saveAvatar" /\ last.status = "ok"
    /\ last.blob.image /\ last.url \in IssuedUrls

\* C21: in local mode the filesystem path a call reads, writes or removes
\* lies inside the uploads base directory, whatever key, reference,
\* segments or original filename the call is given.
C21_InsideBase ==
    ~Remote => /\ last.path # <<>> => IsPrefixPath(uploadsDir, last.path)
               /\ \A i \in 1..Len(issued) : IsPrefixPath(uploadsDir, issued[i].path)

\* what the two services give for the i-th attachment after the step
PairRemoteReadNext(i) ==
    getFileStreamIn(TRUE, s3', {}, NoFiles, KeyOfUrl(issued[i].url), "ok")

PairLocalReadNext(i) ==
    getFileStreamIn(FALSE, NoObjects, dirs', files', KeyOfUrl(issued[i].localUrl), "ok")

\* C22: deleteFolder(S) removes nothing outside its subtree: an attachment
\* stored under segments T whose sanitized form does not begin with the
\* sanitized form of S reads back after the call as it did before it, in
\* both modes, for every S (the empty sequence and empty-string segments
\* included).
C22_FolderFrame ==
    [][last'.op = "deleteFolder"
       => \A i \in 1..Len(issued) :
              ~IsPrefixSeq(sanitizeSegments(last'.segs), sanitizeSegments(issued[i].segs))
              => /\ PairRemoteReadNext(i).status = PairRemoteRead(i).status
                 /\ PairRemoteReadNext(i).body = PairRemoteRead(i).body
                 /\ PairLocalReadNext(i).status = PairLocalRead(i).status
                 /\ PairLocalReadNext(i).body = PairLocalRead(i).body]_vars

\* C23 as claimed: in local mode the base subtrees avatars/ and
\* attachments/ exist after construction and after any sequence of
\* saveAvatar, saveAttachment, deleteFile and deleteFolder calls.
C23_BaseSubtreesExist_Original ==
    ~Remote => AvatarsDir \in dirs /\ AttachmentsDir \in dirs

\* the constructor on a disk
DirsAfterConstructor(disk) == Constructor(cfg, disk).dirs

\* C23: in local mode both base subtrees exist after construction, and
\* constructing again on the disk the constructor left changes nothing;
\* avatars/ exists after any sequence of calls and attachments/ after every
\* successful saveAttachment; in every state a saveAvatar and a
\* saveAttachment whose write the disk accepts succeed, whether or not a
\* deleteFolder has removed attachments/.
C23_BaseSubtreesExist ==
    ~Remote
    => /\ \A disk \in Disks(cfg) :
             /\ {AvatarsDir, AttachmentsDir} \subseteq DirsAfterConstructor(disk)
             /\ DirsAfterConstructor([disk EXCEPT !.dirs = DirsAfterConstructor(disk)])
                   = DirsAfterConstructor(disk)
       /\ last.op = "none" => AttachmentsDir \in dirs
       /\ AvatarsDir \in dirs
       /\ (last.op = "saveAttachment" /\ last.status = "ok") => AttachmentsDir \in dirs
       /\ nextId < MaxStores
          => /\ saveAvatar(Pic, Uuids[nextId + 1], "ok").status = "ok"
             /\ \A req \in AttachmentRequests :
                    saveAttachment(req[1], req[2], Uuids[nextId + 1], "ok").status = "ok"

\* a deleteFolder has removed attachments/ and a store is still to come
C23_Witness ==
    /\ ~Remote /\ last.op = "deleteFolder" /\ AttachmentsDir \notin dirs
    /\ nextId < MaxStores

\* the content type of the blob a store was given: image/webp after the
\* re-encoding of an avatar, the declared MIME type of an attachment
TypeAtStore == IF last.op = "saveAvatar" THEN <<"image", "/", "webp">> ELSE last.blob.mimetype

\* C24: getFileStream returns, in remote mode, the content type recorded
\* with the object at store time (image/webp for an avatar, the declared
\* MIME type for an attachment) or application/octet-stream for an object
\* the backend has no type for; in local mode always
\* application/octet-stream, whatever type the blob was stored with.
C24_ContentType ==
    /\ (last.op \in Stores /\ last.status = "ok")
       => /\ Read(last.url).status = "ok"
          /\ Read(last.url).ctype
               = IF Remote THEN TypeAtStore ELSE <<"application", "/", "octet-stream">>
    /\ (last.op = "getFileStream" /\ last.status = "ok")
       => /\ ~Remote => last.ctype = <<"application", "/", "octet-stream">>
          /\ (Remote /\ last.arg = UntypedKey)
             => last.ctype = <<"application", "/", "octet-stream">>
          /\ Remote
             => \A i \in 1..Len(issued) :
                    issued[i].key = last.arg
                    => /\ last.ctype = issued[i].ctype
                       /\ issued[i].op = "saveAvatar" => last.ctype = <<"image", "/", "webp">>

\* in remote mode, with an attachment declared as image/png in the bucket,
\* the object without a recorded type was read
C24_Witness ==
    /\ Remote /\ last.op = "getFileStream" /\ last.status = "ok" /\ last.arg = UntypedKey
    /\ \E i \in Attachments :
           /\ issued[i].key \in DOMAIN s3
           /\ s3[issued[i].key].contentType = <<"image", "/", "png">>

\* what ran for the n-th submission, in order
IsOf(n, e) == e.sub = n

EventsOf(n) ==
    LET es == SelectSeq(forms.log, LAMBDA e : IsOf(n, e))
    IN  [i \in 1..Len(es) |-> <<es[i].ev, es[i].arg>>]

\* a request of the mounted component is in flight
OwnRequest == \E q \in forms.flying : q.mount = forms.page.mount

Logins == {i \in 1..Len(forms.log) : forms.log[i].ev = "login"}

\* C25: in the login and registration forms every submission sets the
\* loading flag and clears the error before it sends the request; it ends
\* with the loading flag cleared whether the request succeeds or fails; the
\* auth store's login and the navigation to /dashboard run only after a
\* successful response, in that order; a failed request sets the error
\* message and runs neither.
C25_SubmitProtocol ==
    /\ \A n \in 1..forms.sent :
          LET es == EventsOf(n)
              after == SubSeq(es, 4, Len(es))
          IN  /\ Len(es) >= 3
              /\ es[1] = <<"setIsLoading", "true">>
              /\ es[2] = <<"setError", NoError>>
              /\ es[3] \in {<<"post", Endpoint(page)>> : page \in FormPages}
              /\ IF \E q \in forms.flying : q.sub = n
                 THEN after = <<>>
                 ELSE \/ after = << <<"await", "response">>, <<"login", "access_token">>,
                                    <<"push", "/dashboard">>, <<"setIsLoading", "false">> >>
                      \/ \E page \in FormPages :
                            /\ es[3] = <<"post", Endpoint(page)>>
                            /\ after = << <<"await", "error">>,
                                          <<"setError", ErrorMessage(page)>>,
                                          <<"setIsLoading", "false">> >>
    /\ forms.page.isLoading <=> OwnRequest
    /\ OwnRequest => forms.page.error = NoError
    /\ forms.page.error # NoError => forms.page.error = ErrorMessage(forms.page.route)
    /\ forms.auth # NoToken <=> Logins # {}
    /\ forms.page.route = "/dashboard" => forms.auth # NoToken

\* two submissions have ended, one refused and then one accepted
C25_Witness ==
    /\ forms.sent = 2 /\ forms.flying = {}
    /\ EventsOf(1)[4] = <<"await", "error">>
    /\ EventsOf(2)[4] = <<"await", "response">>
    /\ forms.page.route = "/dashboard"

====
